---- MODULE Spec2Model ----
(***************************************************************************)
(* Golf-Physics-Simulator: the trajectory solver (lib/physics.ts) and the  *)
(* playback controller (components/golf/GolfSimulator.tsx).                *)
(*                                                                         *)
(* Numbers.  The program computes with IEEE doubles: every +, -, *, / and  *)
(* sqrt yields the representable number nearest to the exact result.  The  *)
(* model keeps that shape with decimal fixed-point numbers: an integer n   *)
(* stands for n / Scale, sums and differences are exact, and products,     *)
(* quotients and square roots are rounded to the nearest representable     *)
(* number.  So 1 m is 1000000, the default time step 0.016 s is 16000.     *)
(* Angles are whole degrees; Math.cos / Math.sin are tabulated.            *)
(*                                                                         *)
(* Playback.  GolfSimulator is a React 18 client component.  A click is a  *)
(* discrete event: React runs the handler, renders and runs the effects    *)
(* whose dependencies changed before the browser runs anything else, so a  *)
(* handler with its render and effects is one action.  An animation-frame  *)
(* callback is a task of its own and is one action together with the       *)
(* render and the effects its state updates cause.  The wall clock is in   *)
(* whole milliseconds; a frame callback is passed the current clock.       *)
(***************************************************************************)
(* The specifications share the variables: Spec follows one call of        *)
(* calculateTrajectory step by step while the component is at rest;        *)
(* PlaybackSpec follows the component, in which a call of                  *)
(* calculateTrajectory is one synchronous step of handleSwing;             *)
(* EditingSpec adds the edits of the launch angle, StoringSpec the Store   *)
(* button, and RunningSpec lets time pass without end.                     *)
(***************************************************************************)
EXTENDS Integers, Sequences, FiniteSets, TLC

\* ------------------------------------------------------------------------
\* Fixed-point arithmetic (the `number` operations of physics.ts)
\* ------------------------------------------------------------------------

\* One unit: 1.0 is represented by Scale.
Scale == 1000000

\* Scale = Kilo * Kilo; products are formed from the high and low parts of
\* the factors so that no intermediate value leaves the 32-bit range.
Kilo == 1000

Hi(a) == a \div Kilo
Lo(a) == a % Kilo

\* Middle partial sum of a * b: (a*b) = Hi(a)*Hi(b)*Scale + MulMid*Kilo + r
MulMid(a, b) == Hi(a) * Lo(b) + Lo(a) * Hi(b) + ((Lo(a) * Lo(b)) \div Kilo)

\* floor(a * b / Scale) and (a * b) mod Scale, both exact.
MulFloor(a, b) == Hi(a) * Hi(b) + (MulMid(a, b) \div Kilo)
MulRem(a, b) == (MulMid(a, b) % Kilo) * Kilo + ((Lo(a) * Lo(b)) % Kilo)

\* a * b, rounded to nearest.  (*, / and sqrt are functions of their
\* operands: an operand is a number, evaluated once, as in the program.)
FMul[a \in Int, b \in Int] == MulFloor(a, b) + (IF 2 * MulRem(a, b) >= Scale THEN 1 ELSE 0)

\* x ** 2
FSq[a \in Int] == FMul[a, a]

Abs(a) == IF a < 0 THEN -a ELSE a

\* Long division: n more decimal digits of r / b appended to acc, then
\* rounded to nearest on the remainder.
RECURSIVE DivDigits(_, _, _, _)
DivDigits(r, b, n, acc) ==
  IF n = 0
    THEN acc + (IF 2 * r >= b THEN 1 ELSE 0)
    ELSE DivDigits((r * 10) % b, b, n - 1, acc * 10 + ((r * 10) \div b))

\* a / b (b # 0), rounded to nearest.
FDiv[a \in Int, b \in Int] ==
  LET q == DivDigits(Abs(a) % Abs(b), Abs(b), 6, Abs(a) \div Abs(b))
  IN  IF (a >= 0) = (b > 0) THEN q ELSE -q

\* The largest r with r * r <= a, found by bisection on [lo, hi].
SqrtSearch[a \in Nat, lo \in Nat, hi \in Nat] ==
  IF lo >= hi
    THEN lo
    ELSE LET mid == (lo + hi + 1) \div 2
             q == MulFloor(mid, mid)
         IN  IF q < a \/ (q = a /\ MulRem(mid, mid) = 0)
               THEN SqrtSearch[a, mid, hi]
               ELSE SqrtSearch[a, lo, mid - 1]

SqrtHi == 46 * Scale

\* r or r + 1, whichever is nearer to the square root of a, r being the
\* largest number with r * r <= a: r + 1 when a - r * r > r / Scale.
SqrtRound[a \in Nat, r \in Nat] ==
  IF (a - MulFloor(r, r)) * Scale - MulRem(r, r) > r THEN r + 1 ELSE r

\* Math.sqrt(a), rounded to nearest.
FSqrt(a) == SqrtRound[a, SqrtSearch[a, 0, SqrtHi]]

\* Math.cos / Math.sin of (angle * Math.PI) / 180, angle in whole degrees.
CosDeg(angle) ==
  CASE angle = 0  -> 1000000
    [] angle = 30 -> 866025
    [] angle = 45 -> 707107
    [] angle = 60 -> 500000
    [] angle = 90 -> 0

SinDeg(angle) ==
  CASE angle = 0  -> 0
    [] angle = 30 -> 500000
    [] angle = 45 -> 707107
    [] angle = 60 -> 866025
    [] angle = 90 -> 1000000

\* ------------------------------------------------------------------------
\* Program constants
\* ------------------------------------------------------------------------

AIR_DENSITY == 1225000
GOLF_BALL_DIAMETER == 42700
MathPI == 3141593
\* const dt = 0.016 of calculateAnalyticalTrajectory
AnalyticalDt == 16000
\* timeStep: number = 0.016, the default of calculateTrajectory
DefaultTimeStep == 16000
\* the aiming preview calls calculateTrajectory(idealParams, 0.1)
AimingTimeStep == 100000

Half == Scale \div 2
Two == 2 * Scale

\* ------------------------------------------------------------------------
\* Data model (lib/types.ts)
\* ------------------------------------------------------------------------

Point(x, y, t) == [x |-> x, y |-> y, t |-> t]

\* SimulationStats; the optional field `collision` is "none" when absent.
Stats(flightTime, horizontalDistance, maxHeight, maxHeightPoint, launchSpeed, impactSpeed, collision) ==
  [flightTime |-> flightTime,
   horizontalDistance |-> horizontalDistance,
   maxHeight |-> maxHeight,
   maxHeightPoint |-> maxHeightPoint,
   timeToMaxHeight |-> maxHeightPoint.t,
   horizontalDistanceToMaxHeight |-> maxHeightPoint.x,
   launchSpeed |-> launchSpeed,
   impactSpeed |-> impactSpeed,
   collision |-> collision]

SimulationResult(trajectory_, finalStats) ==
  [trajectory |-> trajectory_, finalStats |-> finalStats]

Tree(x, width, height) == [type |-> "tree", x |-> x, width |-> width, height |-> height]
Sand(x, width) == [type |-> "sand", x |-> x, width |-> width, height |-> 0]

\* ------------------------------------------------------------------------
\* calculateTrajectory and its two methods, as functions of their inputs
\* ------------------------------------------------------------------------

\* the resting ball reported on the ground
ZeroVelocityResult_OnGround(params) ==
  SimulationResult(<<Point(0, 0, 0)>>,
                   Stats(0, 0, params.startHeight, Point(0, params.startHeight, 0),
                         0, 0, "none"))

\* if (params.initialVelocity === 0) return { ... }
ZeroVelocityResult(params) ==
  SimulationResult(<<Point(0, params.startHeight, 0)>>,
                   Stats(0, 0, params.startHeight, Point(0, params.startHeight, 0),
                         0, 0, "none"))

\* the grounded launch reported with no impact speed
DegenerateResult_NoImpact(v0) ==
  SimulationResult(<<Point(0, 0, 0)>>,
                   Stats(0, 0, 0, Point(0, 0, 0), v0, 0, "none"))

\* if (v0y <= 0 && y0 === 0) return { ... }: the same literal in both methods
DegenerateResult(v0) ==
  SimulationResult(<<Point(0, 0, 0)>>,
                   Stats(0, 0, 0, Point(0, 0, 0), v0, v0, "none"))

InitialVx(params) == FMul[params.initialVelocity, CosDeg(params.angle)]
InitialVy(params) == FMul[params.initialVelocity, SinDeg(params.angle)]

\* the choice made on the air resistance flag alone
UsesAnalytical_IgnoresObstacles(params, obstacles) == ~params.airResistance

\* The method calculateTrajectory selects for a call with nonzero velocity.
UsesAnalytical(params, obstacles) ==
  (~params.airResistance) /\ Len(obstacles) = 0

\* --- analytical method ---------------------------------------------------

\* the time to the apex taken for the flight time
AnalyticalFlightTime_Apex(params) == FDiv[InitialVy(params), params.gravity]

AnalyticalFlightTime(params) ==
  LET v0y == InitialVy(params)
  IN  FDiv[v0y + FSqrt(FSq[v0y] + FMul[FMul[Two, params.gravity], params.startHeight]),
           params.gravity]

AnalyticalMaxHeight(params) ==
  params.startHeight + FDiv[FSq[InitialVy(params)], FMul[Two, params.gravity]]

AnalyticalStats(params) ==
  LET v0x == InitialVx(params)
      v0y == InitialVy(params)
      g == params.gravity
      flightTime == AnalyticalFlightTime(params)
      timeToMaxHeight == FDiv[v0y, g]
      maxHeight == AnalyticalMaxHeight(params)
      impactVy == v0y - FMul[g, flightTime]
  IN  Stats(flightTime, FMul[v0x, flightTime], maxHeight,
            Point(FMul[v0x, timeToMaxHeight], maxHeight, timeToMaxHeight),
            params.initialVelocity, FSqrt(FSq[v0x] + FSq[impactVy]), "none")

\* The sample the loop pushes for time t.
AnalyticalSample(params, t) ==
  Point(FMul[InitialVx(params), t],
        params.startHeight + FMul[InitialVy(params), t]
          - FMul[FMul[Half, params.gravity], FSq[t]],
        t)

\* trajectory.push({ x: horizontalDistance, y: 0, t: flightTime })
AnalyticalLanding(params) ==
  LET s == AnalyticalStats(params)
  IN  Point(s.horizontalDistance, 0, s.flightTime)

\* --- numerical method ----------------------------------------------------

Area == FMul[MathPI, FSq[FDiv[GOLF_BALL_DIAMETER, Two]]]

DragConstant(params) ==
  FMul[FMul[FMul[Half, AIR_DENSITY], Area], params.dragCoefficient]

\* The locals of calculateNumericalTrajectory before the loop.
NumericalStart(params) ==
  [x |-> 0, y |-> params.startHeight,
   vx |-> InitialVx(params), vy |-> InitialVy(params), t |-> 0,
   trajectory |-> <<Point(0, params.startHeight, 0)>>,
   maxHeight |-> params.startHeight,
   maxHeightPoint |-> Point(0, params.startHeight, 0),
   returned |-> FALSE,
   finalStats |-> Stats(0, 0, 0, Point(0, 0, 0), 0, 0, "none")]

\* ax, ay of one iteration
AccelX(s, params) ==
  IF params.airResistance
    THEN FDiv[FMul[FMul[-DragConstant(params), s.vx], FSqrt(FSq[s.vx] + FSq[s.vy])],
              params.mass]
    ELSE 0

AccelY(s, params) ==
  IF params.airResistance
    THEN (-params.gravity)
           + FDiv[FMul[FMul[-DragConstant(params), s.vy], FSqrt(FSq[s.vx] + FSq[s.vy])],
                  params.mass]
    ELSE -params.gravity

\* the tree test without its height condition
HitsTree_AnyHeight(obs, x, y) ==
  /\ obs.type = "tree"
  /\ x >= obs.x - FDiv[obs.width, Two]
  /\ x <= obs.x + FDiv[obs.width, Two]

\* the tree test with the whole width taken on the far side only
HitsTree_FarSide(obs, x, y) ==
  /\ obs.type = "tree"
  /\ x >= obs.x
  /\ x <= obs.x + obs.width
  /\ y <= obs.height

\* obs.type === 'tree' && x >= obs.x - obs.width / 2 && x <= obs.x + obs.width / 2
\*   && y <= obs.height
HitsTree(obs, x, y) ==
  /\ obs.type = "tree"
  /\ x >= obs.x - FDiv[obs.width, Two]
  /\ x <= obs.x + FDiv[obs.width, Two]
  /\ y <= obs.height

\* the sand test with the span centred on obs.x, as the tree's is
InSand_Centred(obs, finalX) ==
  /\ obs.type = "sand"
  /\ finalX >= obs.x - FDiv[obs.width, Two]
  /\ finalX <= obs.x + FDiv[obs.width, Two]

\* obs.type === 'sand' && finalX >= obs.x && finalX <= obs.x + obs.width
InSand(obs, finalX) ==
  /\ obs.type = "sand"
  /\ finalX >= obs.x
  /\ finalX <= obs.x + obs.width

\* the running maximum never updated
RunningMaxHeight_Stale(maxHeight, y) == maxHeight

\* if (y > maxHeight) { maxHeight = y; ... }
RunningMaxHeight(maxHeight, y) == IF y > maxHeight THEN y ELSE maxHeight

\* the landing sample left at the height the step reached
GroundSample_Unclamped(finalX, y, finalTime) == Point(finalX, y, finalTime)

\* trajectory.push({ x: finalX, y: 0, t: finalTime }): the landing sample of
\* a step that ended at height y < 0
GroundSample(finalX, y, finalTime) == Point(finalX, 0, finalTime)

\* One iteration of the while (true) loop, from the locals s to the locals
\* after it; `returned` is set when the iteration ends in a return.
NumericalStep(s, params, dt, obstacles) ==
  LET ax == AccelX(s, params)
      ay == AccelY(s, params)
      vx == s.vx + FMul[ax, dt]
      vy == s.vy + FMul[ay, dt]
      x == s.x + FMul[vx, dt]
      y == s.y + FMul[vy, dt]
      t == s.t + dt
      maxHeight == RunningMaxHeight(s.maxHeight, y)
      maxHeightPoint == IF y > s.maxHeight THEN Point(x, y, t) ELSE s.maxHeightPoint
      moved == [s EXCEPT !.x = x, !.y = y, !.vx = vx, !.vy = vy, !.t = t,
                         !.maxHeight = maxHeight, !.maxHeightPoint = maxHeightPoint]
      \* Ground collision detection
      intersectionFactor == FDiv[s.y, s.y - y]
      finalX == s.x + FMul[x - s.x, intersectionFactor]
      finalTime == s.t + FMul[dt, intersectionFactor]
      impactVx == vx - FMul[ax, FMul[dt, Scale - intersectionFactor]]
      impactVy == vy - FMul[ay, FMul[dt, Scale - intersectionFactor]]
  IN  IF \E i \in 1..Len(obstacles) : HitsTree(obstacles[i], x, y)
        THEN [moved EXCEPT
                !.trajectory = Append(s.trajectory, Point(x, y, t)),
                !.returned = TRUE,
                !.finalStats = Stats(t, x, maxHeight, maxHeightPoint,
                                     params.initialVelocity,
                                     FSqrt(FSq[vx] + FSq[vy]), "tree")]
      ELSE IF y < 0
        THEN [moved EXCEPT
                !.trajectory = Append(s.trajectory, GroundSample(finalX, y, finalTime)),
                !.returned = TRUE,
                !.finalStats =
                   IF \E i \in 1..Len(obstacles) : InSand(obstacles[i], finalX)
                     THEN Stats(finalTime, finalX, maxHeight, maxHeightPoint,
                                params.initialVelocity, 0, "sand")
                     ELSE Stats(finalTime, finalX, maxHeight, maxHeightPoint,
                                params.initialVelocity,
                                FSqrt(FSq[impactVx] + FSq[impactVy]), "none")]
      ELSE [moved EXCEPT !.trajectory = Append(s.trajectory, Point(x, y, t))]

\* ------------------------------------------------------------------------
\* The calls that are checked
\* ------------------------------------------------------------------------

Angles == {0, 45, 90}
Velocities == {0, 1000000, 3000000}
Gravities == {10200000, 25000000}
StartHeights == {0, 100000}
Masses == {45900}
DragCoefficients == {0, 400000}
TimeSteps == {DefaultTimeStep, AimingTimeStep}

\* A trunk in the flight path, a low hedge along the whole fairway, a bunker.
Post == Tree(300000, 100000, 200000)
Hedge == Tree(1000000, 2000000, 5000)
Bunker == Sand(200000, 1000000)

ObstacleLists == {<<>>, <<Post>>, <<Hedge>>, <<Bunker>>, <<Bunker, Post>>}

PhysicsStates ==
  [angle : Angles, initialVelocity : Velocities, gravity : Gravities,
   mass : Masses, airResistance : BOOLEAN, dragCoefficient : DragCoefficients,
   startHeight : StartHeights]

\* A call whose time step is so short that gravity * dt is below the
\* resolution of the numbers: the smallest positive time step, weak gravity.
TinyTimeStep == 1
WeakGravity == 400000
TinyStepParams ==
  [angle : {45, 90}, initialVelocity : {1000000}, gravity : {WeakGravity},
   mass : Masses, airResistance : {TRUE}, dragCoefficient : {0},
   startHeight : {0}]

Calls ==
  [params : PhysicsStates, timeStep : TimeSteps, obstacles : ObstacleLists]
    \cup [params : TinyStepParams, timeStep : {TinyTimeStep}, obstacles : {<<>>}]

\* The longest run of the numerical loop that is followed.
MaxSteps == 48

\* ------------------------------------------------------------------------
\* State
\* ------------------------------------------------------------------------

VARIABLES
  params,     \* the PhysicsState passed to calculateTrajectory
  timeStep,   \* its timeStep argument
  obstacles,  \* its obstacles argument
  pc,         \* where the call is: "call", "analytical", "analyticalLoop",
              \*   "numerical", "numericalLoop", "done"
  method,     \* the function that produced the result: "none", "zero",
              \*   "analytical", "numerical"
  loc,        \* the locals of the running method
  steps,      \* iterations of the running loop so far
  result,     \* the SimulationResult returned (when pc = "done")
  solved,     \* calculateTrajectory(p) for the settings p the component is
              \*   followed with: the function is pure, its values are
              \*   worked out once
  \* GolfSimulator: useState
  status,            \* 'idle' | 'flying' | 'paused' | 'finished'
  ballPosition,      \* the point at which the ball is drawn
  trajectory,        \* the visible part of the path
  stats,             \* the statistics shown
  isSlowMotion,      \* the slow-motion switch
  isSettingAngle,    \* the launch arrow is being dragged
  storedRuns,        \* useLocalStorage('golf-sim-runs'): the stored runs
  \* GolfSimulator: useRef
  animationFrameId,  \* id of the requested frame, 0 for undefined
  simulationTime,    \* elapsed simulated time of the run
  lastFrameTime,     \* clock reading of the last frame, in ms
  trajectoryData,    \* the SimulationResult being played back, Null before
  lastCompletedRun,  \* params and stats of the last finished run, or Null
  launched,          \* history: the params the last launch was made with,
                     \*   Null before
  \* the browser
  now,               \* performance.now(), in ms
  frames,            \* the requested animation frames: id and the
                     \*   simulationLoop closure to call
  event              \* the last thing that happened: which UI event or
                     \*   callback, when, and whether it was acted on

solver == <<timeStep, obstacles, pc, method, loc, steps, result, solved>>
playback == <<status, ballPosition, trajectory, stats, isSlowMotion, isSettingAngle,
              animationFrameId, simulationTime, lastFrameTime, trajectoryData,
              lastCompletedRun, storedRuns, launched, now, frames, event>>
vars == <<params, solver, playback>>

\* null
Null == [isNull |-> TRUE]

\* const initialStats
initialStats ==
  [flightTime |-> 0, horizontalDistance |-> 0, maxHeight |-> 0,
   maxHeightPoint |-> Null, timeToMaxHeight |-> 0,
   horizontalDistanceToMaxHeight |-> 0, launchSpeed |-> 0, impactSpeed |-> 0]

\* What is recorded of an event: its name, the clock, whether it was acted
\* on, and the status and the time since the last frame as it found them.
Event(name, accepted) ==
  [name |-> name, at |-> now, accepted |-> accepted, found |-> status,
   gap |-> now - lastFrameTime]

\* The component at rest before any launch: the initial values of its state
\* and refs, the ball put on the tee by the effect on params.startHeight.
Mounted ==
  /\ status = "idle"
  /\ ballPosition = [x |-> 0, y |-> params.startHeight]
  /\ trajectory = <<>>
  /\ stats = initialStats
  /\ isSlowMotion = FALSE
  /\ isSettingAngle = FALSE
  /\ animationFrameId = 0
  /\ simulationTime = 0
  /\ lastFrameTime = 0
  /\ trajectoryData = Null
  /\ lastCompletedRun = Null
  /\ storedRuns = <<>>
  /\ launched = Null
  /\ now = 0
  /\ frames = {}
  /\ event = [name |-> "mount", at |-> 0, accepted |-> TRUE, found |-> "idle",
              gap |-> 0]

NoLocals == [t |-> 0, trajectory |-> <<>>]
NoResult == SimulationResult(<<>>, Stats(0, 0, 0, Point(0, 0, 0), 0, 0, "none"))

Init ==
  /\ \E c \in Calls :
       /\ params = c.params
       /\ timeStep = c.timeStep
       /\ obstacles = c.obstacles
  /\ pc = "call"
  /\ method = "none"
  /\ loc = NoLocals
  /\ steps = 0
  /\ result = NoResult
  /\ solved = <<>>
  /\ Mounted

\* calculateTrajectory: the zero-velocity return and the choice of method.
calculateTrajectory ==
  /\ pc = "call"
  /\ IF params.initialVelocity = 0
       THEN /\ pc' = "done"
            /\ method' = "zero"
            /\ result' = ZeroVelocityResult(params)
       ELSE /\ pc' = IF UsesAnalytical(params, obstacles) THEN "analytical" ELSE "numerical"
            /\ UNCHANGED <<method, result>>
  /\ UNCHANGED <<params, timeStep, obstacles, loc, steps>>
  /\ UNCHANGED <<playback, solved>>

\* calculateAnalyticalTrajectory up to the sampling loop: the degenerate
\* return, or the stats and the empty trajectory.
calculateAnalyticalTrajectory ==
  /\ pc = "analytical"
  /\ method' = "analytical"
  /\ IF InitialVy(params) <= 0 /\ params.startHeight = 0
       THEN /\ pc' = "done"
            /\ result' = DegenerateResult(params.initialVelocity)
            /\ UNCHANGED loc
       ELSE /\ pc' = "analyticalLoop"
            /\ loc' = [t |-> 0, trajectory |-> <<>>]
            /\ UNCHANGED result
  /\ UNCHANGED <<params, timeStep, obstacles, steps>>
  /\ UNCHANGED <<playback, solved>>

\* for (let t = 0; t <= flightTime; t += dt) { ... push ... }: one iteration
AnalyticalLoop ==
  /\ pc = "analyticalLoop"
  /\ loc.t <= AnalyticalFlightTime(params)
  /\ loc' = [t |-> loc.t + AnalyticalDt,
             trajectory |-> Append(loc.trajectory, AnalyticalSample(params, loc.t))]
  /\ steps' = steps + 1
  /\ UNCHANGED <<params, timeStep, obstacles, pc, method, result>>
  /\ UNCHANGED <<playback, solved>>

\* the loop's exit: push the landing point and return
AnalyticalReturn ==
  /\ pc = "analyticalLoop"
  /\ ~(loc.t <= AnalyticalFlightTime(params))
  /\ pc' = "done"
  /\ result' = SimulationResult(Append(loc.trajectory, AnalyticalLanding(params)),
                                AnalyticalStats(params))
  /\ UNCHANGED <<params, timeStep, obstacles, method, loc, steps>>
  /\ UNCHANGED <<playback, solved>>

\* calculateNumericalTrajectory up to the loop: the locals and the
\* degenerate return.
calculateNumericalTrajectory ==
  /\ pc = "numerical"
  /\ method' = "numerical"
  /\ loc' = NumericalStart(params)
  /\ IF InitialVy(params) <= 0 /\ params.startHeight = 0
       THEN /\ pc' = "done"
            /\ result' = DegenerateResult(params.initialVelocity)
       ELSE /\ pc' = "numericalLoop"
            /\ UNCHANGED result
  /\ UNCHANGED <<params, timeStep, obstacles, steps>>
  /\ UNCHANGED <<playback, solved>>

\* while (true) { ... }: one iteration, which may return
NumericalLoop ==
  /\ pc = "numericalLoop"
  /\ steps < MaxSteps
  /\ LET s == NumericalStep(loc, params, timeStep, obstacles)
     IN  /\ loc' = s
         /\ IF s.returned
              THEN /\ pc' = "done"
                   /\ result' = SimulationResult(s.trajectory, s.finalStats)
              ELSE UNCHANGED <<pc, result>>
  /\ steps' = steps + 1
  /\ UNCHANGED <<params, timeStep, obstacles, method>>
  /\ UNCHANGED <<playback, solved>>

Next ==
  \/ calculateTrajectory
  \/ calculateAnalyticalTrajectory
  \/ AnalyticalLoop
  \/ AnalyticalReturn
  \/ calculateNumericalTrajectory
  \/ NumericalLoop

Spec == Init /\ [][Next]_vars

\* The call is a single thread of control: it keeps running until it returns.
FairSpec == Spec /\ WF_vars(Next)

Done == pc = "done"

\* ------------------------------------------------------------------------
\* The result of a whole call, as a function of its arguments
\* ------------------------------------------------------------------------

\* The loop of calculateNumericalTrajectory run from the locals s until it
\* returns, for at most `fuel` iterations.
RECURSIVE NumericalRun(_, _, _, _, _)
NumericalRun(s, params_, dt, obstacles_, fuel) ==
  IF s.returned \/ fuel = 0
    THEN s
    ELSE NumericalRun(NumericalStep(s, params_, dt, obstacles_), params_, dt,
                      obstacles_, fuel - 1)

IsDegenerate(params_) == InitialVy(params_) <= 0 /\ params_.startHeight = 0

\* finalStats of calculateTrajectory(params_, dt, obstacles_)
FinalStatsOf(params_, dt, obstacles_) ==
  IF params_.initialVelocity = 0 THEN ZeroVelocityResult(params_).finalStats
  ELSE IF IsDegenerate(params_) THEN DegenerateResult(params_.initialVelocity).finalStats
  ELSE IF UsesAnalytical(params_, obstacles_) THEN AnalyticalStats(params_)
  ELSE NumericalRun(NumericalStart(params_), params_, dt, obstacles_, MaxSteps).finalStats

\* ------------------------------------------------------------------------
\* Properties
\* ------------------------------------------------------------------------

Trajectory == result.trajectory
FinalStats == result.finalStats
LastSample == Trajectory[Len(Trajectory)]

\* C1: in every returned result the sample times strictly increase:
\* trajectory[i].t < trajectory[i+1].t for every consecutive pair, the
\* appended landing sample included.
C1_StrictlyIncreasingTimes ==
  Done => \A i \in 1..(Len(Trajectory) - 1) : Trajectory[i].t < Trajectory[i + 1].t

\* C2: when no tree collision occurred the last sample of the result has
\* y = 0, the zero-velocity case included.
C2_LastSampleOnGround ==
  (Done /\ FinalStats.collision # "tree") => LastSample.y = 0

\* C2 as amended: when no tree collision occurred the last sample has y = 0,
\* except for a zero-velocity call, whose single sample rests at startHeight.
C2_LastSampleOnGroundUnlessAtRest ==
  (Done /\ FinalStats.collision # "tree") =>
     LastSample.y = (IF params.initialVelocity = 0 THEN params.startHeight ELSE 0)

\* a numerical landing interpolated from a step that went below the ground
C2_Witness ==
  /\ Done
  /\ method = "numerical"
  /\ FinalStats.collision # "tree"
  /\ loc.y < 0
  /\ LastSample.y = 0

\* the span test of the tree obstacle i, written out
InSpan(i, x) ==
  /\ obstacles[i].type = "tree"
  /\ obstacles[i].x - FDiv[obstacles[i].width, Two] <= x
  /\ x <= obstacles[i].x + FDiv[obstacles[i].width, Two]

EndsOnTree == Done /\ FinalStats.collision = "tree"

\* C3: when the numerical method ends on a tree collision, the last sample
\* has x inside the span of the tree and y equal to the tree's height.
C3_StopsAtTreeHeight ==
  EndsOnTree =>
    \E i \in 1..Len(obstacles) :
       InSpan(i, LastSample.x) /\ LastSample.y = obstacles[i].height

\* C3 as amended: ... the last sample has x inside the span of a tree of the
\* list and y at or below that tree's height (the position the step reached,
\* not moved to the tree's surface).
C3_StopsInsideTree ==
  EndsOnTree =>
    /\ \E i \in 1..Len(obstacles) :
          InSpan(i, LastSample.x) /\ LastSample.y <= obstacles[i].height
    /\ LastSample = Point(loc.x, loc.y, loc.t)

\* a collision below the top of the trunk, above the ground
C3_Witness ==
  /\ EndsOnTree
  /\ LastSample.y > 0
  /\ \E i \in 1..Len(obstacles) :
        InSpan(i, LastSample.x) /\ LastSample.y < obstacles[i].height

\* The numerical method run on this call's parameters and time step with no
\* obstacle in the list.
Unobstructed ==
  NumericalRun(NumericalStart(params), params, timeStep, <<>>, MaxSteps)

\* The positions reached by the integration steps of the run u: its samples
\* after the first, the last one replaced by the position of the step that
\* went below the ground.
StepsOf(u) ==
  [k \in 1..(Len(u.trajectory) - 1) |->
     IF k = Len(u.trajectory) - 1 /\ u.returned
       THEN Point(u.x, u.y, u.t)
       ELSE u.trajectory[k + 1]]

TreeAt(pt) ==
  \E i \in 1..Len(obstacles) : InSpan(i, pt.x) /\ pt.y <= obstacles[i].height

\* C4: for a tree whose span lies within the unobstructed flight path and
\* whose height is below the trajectory's max height, the result has
\* collision = 'tree' and a flightTime strictly less than the flightTime for
\* the same parameters with no obstacles.
C4_TreeInPathStopsFlight ==
  LET free == FinalStatsOf(params, timeStep, <<>>)
  IN  (/\ Done
       /\ params.initialVelocity # 0
       /\ \E i \in 1..Len(obstacles) :
             /\ obstacles[i].type = "tree"
             /\ 0 <= obstacles[i].x - FDiv[obstacles[i].width, Two]
             /\ obstacles[i].x + FDiv[obstacles[i].width, Two] <= free.horizontalDistance
             /\ obstacles[i].height < free.maxHeight)
      => (/\ FinalStats.collision = "tree"
          /\ FinalStats.flightTime < free.flightTime)

\* C4 as amended: if a position reached by an integration step of the call
\* lies within the span of a tree at or below the tree's height, the result
\* has collision = 'tree' and flightTime is the time of the first such step;
\* when that position is not below the ground, flightTime is less than or
\* equal to the flightTime of the numerical method for the same parameters
\* and time step without obstacles.
C4_TreeOnSampleStopsFlight ==
  (Done /\ method = "numerical" /\ ~IsDegenerate(params)) =>
    LET u == Unobstructed
        reached == StepsOf(u)
        hits == {k \in DOMAIN reached : TreeAt(reached[k])}
    IN  hits # {} =>
          LET first == CHOOSE k \in hits : \A j \in hits : k <= j
              hit == reached[first]
          IN  /\ FinalStats.collision = "tree"
              /\ FinalStats.flightTime = hit.t
              /\ LastSample = hit
              /\ Len(Trajectory) = first + 1
              /\ hit.y >= 0 => FinalStats.flightTime <= u.finalStats.flightTime

\* a trunk hit in mid-flight, several steps before the unobstructed landing
C4_Witness ==
  /\ EndsOnTree
  /\ LastSample.y > 0
  /\ Unobstructed.returned
  /\ FinalStats.flightTime + timeStep < Unobstructed.finalStats.flightTime

\* C5: no sample of a returned trajectory has negative height.
C5_NoNegativeHeight ==
  Done => \A i \in 1..Len(Trajectory) : Trajectory[i].y >= 0

SampledAnalytically == method = "analytical" /\ ~IsDegenerate(params)

\* By how much a rounded sample may exceed the rounded closed-form apex, in
\* units of the last place: half a unit for each of v0y * t, the product with
\* t ** 2 and the quotient of the apex, and 0.5 * g / 2 < 6.5 for the
\* rounding of t ** 2 (g <= 25).
RoundingSlack == 8

C7_MethodSelection ==
  (Done /\ params.initialVelocity # 0) =>
    /\ method \in {"analytical", "numerical"}
    /\ method = "analytical" <=> (params.airResistance = FALSE /\ obstacles = <<>>)

\* no air resistance, but an obstacle in the list: the numerical method ran
\* and its obstacle test stopped the flight
C7_Witness ==
  /\ Done
  /\ params.initialVelocity # 0
  /\ ~params.airResistance
  /\ method = "numerical"
  /\ FinalStats.collision = "tree"

\* with air resistance on and dragCoefficient = 0 the numerical method runs
C7_WitnessZeroDrag ==
  /\ Done
  /\ params.airResistance
  /\ params.dragCoefficient = 0
  /\ method = "numerical"
  /\ Len(Trajectory) > 2

\* C8: a call with initialVelocity = 0 returns exactly one sample
\* (0, startHeight, 0) and stats whose flightTime, horizontalDistance,
\* horizontalDistanceToMaxHeight, launchSpeed and impactSpeed are zero, for
\* every startHeight and every obstacle list.
C8_ZeroVelocity ==
  (pc # "call" /\ params.initialVelocity = 0) =>
    /\ Done
    /\ Trajectory = <<Point(0, params.startHeight, 0)>>
    /\ FinalStats.flightTime = 0
    /\ FinalStats.horizontalDistance = 0
    /\ FinalStats.horizontalDistanceToMaxHeight = 0
    /\ FinalStats.launchSpeed = 0
    /\ FinalStats.impactSpeed = 0

\* a ball at rest on a raised tee, with obstacles in the list
C8_Witness ==
  /\ Done
  /\ params.initialVelocity = 0
  /\ params.startHeight > 0
  /\ obstacles # <<>>
  /\ method = "zero"

\* A launch that cannot leave the ground: v0y <= 0 from startHeight = 0.
GroundedLaunch ==
  /\ params.initialVelocity # 0
  /\ FMul[params.initialVelocity, SinDeg(params.angle)] <= 0
  /\ params.startHeight = 0

\* C9: a grounded launch returns, from both methods, the single-point
\* trajectory [(0, 0, 0)] with flightTime, horizontalDistance, maxHeight and
\* impactSpeed all 0.
C9_GroundedLaunchAllZero ==
  (Done /\ GroundedLaunch) =>
    /\ Trajectory = <<Point(0, 0, 0)>>
    /\ FinalStats.flightTime = 0
    /\ FinalStats.horizontalDistance = 0
    /\ FinalStats.maxHeight = 0
    /\ FinalStats.impactSpeed = 0

\* C9 as amended: ... with flightTime, horizontalDistance and maxHeight 0,
\* while launchSpeed and impactSpeed are both the initial velocity.
C9_GroundedLaunchKeepsSpeed ==
  (Done /\ GroundedLaunch) =>
    /\ Trajectory = <<Point(0, 0, 0)>>
    /\ FinalStats.flightTime = 0
    /\ FinalStats.horizontalDistance = 0
    /\ FinalStats.maxHeight = 0
    /\ FinalStats.launchSpeed = params.initialVelocity
    /\ FinalStats.impactSpeed = params.initialVelocity
    /\ steps = 0

\* a 0-degree launch from the ground through the numerical method
C9_Witness ==
  /\ Done
  /\ GroundedLaunch
  /\ params.angle = 0
  /\ method = "numerical"

\* the same launch through the analytical method
C9_WitnessAnalytical ==
  /\ Done
  /\ GroundedLaunch
  /\ params.angle = 0
  /\ method = "analytical"

Stalled ==
  /\ pc = "numericalLoop"
  /\ obstacles = <<>>
  /\ loc.vy >= 0
  /\ LET s == NumericalStep(loc, params, timeStep, obstacles)
     IN  s.vx = loc.vx /\ s.vy = loc.vy /\ ~s.returned

\* Stalled is stable: once the loop is stalled it stays stalled.
StalledForever == [][Stalled => Stalled']_vars

\* The bound on the followed iterations cuts stalled runs only.
CutOnlyWhenStalled == (pc = "numericalLoop" /\ steps >= MaxSteps) => Stalled

WithoutSand(obstacles_) ==
  SelectSeq(obstacles_, LAMBDA obs : obs.type # "sand")

\* The numerical method run on this call's parameters and time step with the
\* sand obstacles taken out of the list.
SandFree ==
  NumericalRun(NumericalStart(params), params, timeStep, WithoutSand(obstacles),
               MaxSteps)

\* The landing x of the run u lies within the span of a sand obstacle of the
\* list.
LandsInSand(u) ==
  /\ u.returned
  /\ u.finalStats.collision = "none"
  /\ \E i \in 1..Len(obstacles) :
        /\ obstacles[i].type = "sand"
        /\ obstacles[i].x <= u.finalStats.horizontalDistance
        /\ u.finalStats.horizontalDistance <= obstacles[i].x + obstacles[i].width

\* C12: when the interpolated landing x falls inside a sand obstacle's span,
\* the result has impactSpeed = 0 and collision = 'sand', while the samples,
\* horizontalDistance and flightTime are those of the numerical method for
\* the same parameters and time step without the sand obstacle; and 'sand'
\* is reported in no other case.
C12_SandStopsBallOnly ==
  (Done /\ method = "numerical" /\ ~IsDegenerate(params)) =>
    LET u == SandFree
    IN  /\ LandsInSand(u) =>
              /\ FinalStats.collision = "sand"
              /\ FinalStats.impactSpeed = 0
              /\ Trajectory = u.trajectory
              /\ LastSample.y = 0
              /\ FinalStats.horizontalDistance = u.finalStats.horizontalDistance
              /\ FinalStats.flightTime = u.finalStats.flightTime
              /\ FinalStats.maxHeight = u.finalStats.maxHeight
        /\ FinalStats.collision = "sand" => LandsInSand(u)

\* a landing in the bunker after a flight of several steps, at a speed that
\* the run without the bunker reports as positive
C12_Witness ==
  /\ Done
  /\ FinalStats.collision = "sand"
  /\ Len(Trajectory) > 3
  /\ FinalStats.horizontalDistance > 0
  /\ SandFree.finalStats.impactSpeed > 0

\* A call without air resistance from startHeight 0 that hit no obstacle.
LevelFlightNoDrag ==
  /\ Done
  /\ ~params.airResistance
  /\ params.startHeight = 0
  /\ FinalStats.collision = "none"

SpeedSlack == 16

\* The flight was computed by the numerical loop.
Integrated == method = "numerical" /\ ~IsDegenerate(params)

RECURSIVE AnalyticalRun(_, _, _)
AnalyticalRun(params_, t, acc) ==
  IF t <= AnalyticalFlightTime(params_)
    THEN AnalyticalRun(params_, t + AnalyticalDt, Append(acc, AnalyticalSample(params_, t)))
    ELSE Append(acc, AnalyticalLanding(params_))

\* calculateTrajectory(params_, dt, obstacles_)
ResultOf(params_, dt, obstacles_) ==
  IF params_.initialVelocity = 0 THEN ZeroVelocityResult(params_)
  ELSE IF IsDegenerate(params_) THEN DegenerateResult(params_.initialVelocity)
  ELSE IF UsesAnalytical(params_, obstacles_)
    THEN SimulationResult(AnalyticalRun(params_, 0, <<>>), AnalyticalStats(params_))
  ELSE LET s == NumericalRun(NumericalStart(params_), params_, dt, obstacles_, MaxSteps)
       IN  SimulationResult(s.trajectory, s.finalStats)

\* The settings with which the component is followed: a short flight without
\* drag from the ground, one with drag from a raised tee, a ball dropped
\* from the raised tee with no velocity.
Chip == [angle |-> 45, initialVelocity |-> 3000000, gravity |-> 10200000,
         mass |-> 45900, airResistance |-> FALSE, dragCoefficient |-> 400000,
         startHeight |-> 0]
Lob == [Chip EXCEPT !.airResistance = TRUE, !.startHeight = 100000]
Drop == [Lob EXCEPT !.initialVelocity = 0]
PlaybackParams == {Chip, Lob, Drop}

\* The angles the user sets with the angle slider or by dragging the arrow.
EditAngles == {45, 60}

\* The settings after any number of such edits.
EditedParams == {[p EXCEPT !.angle = a] : p \in PlaybackParams, a \in EditAngles}

\* the call that draws the aiming arc: no drag, a time step of 0.1
SwingResult_Aiming ==
  [p \in EditedParams |->
     ResultOf([p EXCEPT !.airResistance = FALSE], AimingTimeStep, <<>>)]

\* calculateTrajectory(params) as handleSwing calls it: default time step,
\* no obstacles.
SwingResult == [p \in EditedParams |-> ResultOf(p, DefaultTimeStep, <<>>)]

\* Time between two things the browser does, in ms: a frame, a stall.
FrameGaps == {100, 300}

\* The clock reading at which the component is no longer followed.
MaxNow == 600

\* timeDelta = (now - lastFrameTime.current) / 1000
Seconds(ms) == ms * Kilo

\* a slow motion that stops the time
TimeFactor_Frozen(slow) == IF slow THEN 0 ELSE Scale

\* const timeFactor = isSlowMotion ? 0.25 : 1.0
TimeFactor(slow) == IF slow THEN 250000 ELSE Scale

\* The closure of a simulationLoop: useCallback with the dependencies
\* [isSlowMotion, status, params] captures the values of one render.
Closure(status_, slow, params_) == [status |-> status_, isSlowMotion |-> slow, params |-> params_]

\* requestAnimationFrame returns an id that names no other requested frame.
\* The program only compares and tests ids, so the least free one is taken.
FreshFrameId(frames_, held) ==
  CHOOSE i \in 1..(Cardinality(frames_) + 2) :
    /\ i # held
    /\ \A f \in frames_ : f.id # i
    /\ \A j \in 1..(i - 1) : j = held \/ \E f \in frames_ : f.id = j

\* a cancelAnimationFrame that cancels nothing
CancelFrame_Nothing(frames_, id) == frames_

\* if (animationFrameId.current) { cancelAnimationFrame(animationFrameId.current);
\*                                 animationFrameId.current = undefined; }
CancelFrame(frames_, id) == {f \in frames_ : f.id # id}

\* resetSimulation without the clock: the elapsed time of the old run stays
ResetRefs_KeepsClock(frames_, id) ==
  [frames |-> CancelFrame(frames_, id), animationFrameId |-> 0,
   simulationTime |-> simulationTime, lastFrameTime |-> now]

\* What resetSimulation writes to the refs: the requested frame cancelled,
\* simulationTime.current = 0, lastFrameTime.current = performance.now().
ResetRefs(frames_, id) ==
  [frames |-> CancelFrame(frames_, id), animationFrameId |-> 0,
   simulationTime |-> 0, lastFrameTime |-> now]

\* the effect without its cleanup: the requested frame is left alone
StatusEffect_NoCleanup(status_, loop, frames_, id, last) ==
  LET fresh == FreshFrameId(frames_, 0)
  IN  IF status_ = "flying"
        THEN [frames |-> frames_ \cup {[id |-> fresh, loop |-> loop]},
              animationFrameId |-> fresh, lastFrameTime |-> now]
        ELSE [frames |-> frames_, animationFrameId |-> id, lastFrameTime |-> last]

\* the effect with its body alone: a run in flight requests a frame on top
\* of the one requested before
StatusEffect_BodyOnly(status_, loop, frames_, id, last) ==
  LET fresh == FreshFrameId(frames_, 0)
  IN  IF status_ = "flying"
        THEN [frames |-> frames_ \cup {[id |-> fresh, loop |-> loop]},
              animationFrameId |-> fresh, lastFrameTime |-> now]
        ELSE [frames |-> CancelFrame(frames_, id), animationFrameId |-> 0,
              lastFrameTime |-> last]

\* the effect without lastFrameTime.current = performance.now()
StatusEffect_KeepsLastFrame(status_, loop, frames_, id, last) ==
  LET cleaned == CancelFrame(frames_, id)
      fresh == FreshFrameId(cleaned, 0)
  IN  IF status_ = "flying"
        THEN [frames |-> cleaned \cup {[id |-> fresh, loop |-> loop]},
              animationFrameId |-> fresh, lastFrameTime |-> last]
        ELSE [frames |-> cleaned, animationFrameId |-> 0, lastFrameTime |-> last]

\* The effect on [status, simulationLoop]: the cleanup of its last run, then
\* its body for the status and the simulationLoop of the new render.
StatusEffect(status_, loop, frames_, id, last) ==
  LET cleaned == CancelFrame(frames_, id)
      fresh == FreshFrameId(cleaned, 0)
  IN  IF status_ = "flying"
        THEN [frames |-> cleaned \cup {[id |-> fresh, loop |-> loop]},
              animationFrameId |-> fresh, lastFrameTime |-> now]
        ELSE [frames |-> cleaned, animationFrameId |-> 0, lastFrameTime |-> last]

\* The effect on [params.startHeight, status]: at rest the ball is drawn on
\* the tee.
RestingBall(status_, params_, ball) ==
  IF status_ = "idle" \/ status_ = "finished"
    THEN [x |-> 0, y |-> params_.startHeight]
    ELSE ball

\* a Swing button that is always there
SwingOffered_Always(status_) == TRUE

\* {status !== 'flying' && status !== 'paused' && (<Button onClick={onSwing}>)}
SwingOffered(status_) == status_ # "flying" /\ status_ # "paused"

PlaybackInit ==
  /\ params \in PlaybackParams
  /\ timeStep = DefaultTimeStep
  /\ obstacles = <<>>
  /\ pc = "idle"
  /\ method = "none"
  /\ loc = NoLocals
  /\ steps = 0
  /\ result = NoResult
  /\ solved = SwingResult
  /\ Mounted

\* handleSwing with the render and the effects that follow it.
\* resetSimulation cancels the requested frame and zeroes the clock of the
\* run; the queued updates leave status 'flying', the ball on the tee, the
\* path empty and the stats of the new result.  When the status changed, the
\* effect on [status, simulationLoop] requests the first frame.
handleSwing ==
  LET reset == ResetRefs(frames, animationFrameId)
      effect == IF status # "flying"
                  THEN StatusEffect("flying", Closure("flying", isSlowMotion, params),
                                    reset.frames, reset.animationFrameId,
                                    reset.lastFrameTime)
                  ELSE reset
  IN  /\ trajectoryData' = solved[params]
      /\ status' = "flying"
      /\ ballPosition' = [x |-> 0, y |-> params.startHeight]
      /\ trajectory' = <<>>
      /\ stats' = solved[params].finalStats
      /\ simulationTime' = reset.simulationTime
      /\ lastFrameTime' = effect.lastFrameTime
      /\ animationFrameId' = effect.animationFrameId
      /\ frames' = effect.frames
      /\ launched' = params
      /\ event' = Event("swing", TRUE)
      /\ UNCHANGED <<params, solver, storedRuns, isSettingAngle, isSlowMotion, lastCompletedRun, now>>

\* The user goes for the Swing button: handleSwing when the button is there,
\* nothing when it is not.
Swing ==
  \/ SwingOffered(status) /\ handleSwing
  \/ /\ ~SwingOffered(status)
     /\ event' = Event("swing", FALSE)
     /\ UNCHANGED <<params, solver, storedRuns, launched, isSettingAngle, status, ballPosition, trajectory, stats,
                    isSlowMotion, animationFrameId, simulationTime,
                    lastFrameTime, trajectoryData, lastCompletedRun, now, frames>>

\* The Reset button: resetSimulation with the render and effects after it.
\* When the status changed, the effect on [status, simulationLoop] runs its
\* cleanup and finds nothing left to cancel.
resetSimulation ==
  /\ LET reset == ResetRefs(frames, animationFrameId)
         effect == IF status # "idle"
                     THEN StatusEffect("idle", Closure("idle", isSlowMotion, params),
                                       reset.frames, reset.animationFrameId,
                                       reset.lastFrameTime)
                     ELSE reset
     IN  /\ frames' = effect.frames
         /\ animationFrameId' = effect.animationFrameId
         /\ simulationTime' = reset.simulationTime
         /\ lastFrameTime' = effect.lastFrameTime
  /\ status' = "idle"
  /\ ballPosition' = [x |-> 0, y |-> params.startHeight]
  /\ trajectory' = <<>>
  /\ stats' = initialStats
  /\ event' = Event("reset", TRUE)
  /\ UNCHANGED <<params, solver, storedRuns, launched, isSettingAngle, isSlowMotion, trajectoryData, lastCompletedRun, now>>

\* a Pause button that is also there after the landing
PauseOffered_AfterLanding(status_) == status_ = "flying" \/ status_ = "finished"

\* SimulationControls renders the Pause button only while flying.
PauseOffered(status_) == status_ = "flying"

\* SimulationControls renders the Play button only while paused.
PlayOffered(status_) == status_ = "paused"

\* The Pause button, there while flying: setStatus('paused'); the cleanup of
\* the effect on [status, simulationLoop] cancels the requested frame.
handlePause ==
  /\ PauseOffered(status)
  /\ LET effect == StatusEffect("paused", Closure("paused", isSlowMotion, params),
                                frames, animationFrameId, lastFrameTime)
     IN  /\ status' = "paused"
         /\ frames' = effect.frames
         /\ animationFrameId' = effect.animationFrameId
         /\ lastFrameTime' = effect.lastFrameTime
  /\ event' = Event("pause", TRUE)
  /\ UNCHANGED <<params, solver, storedRuns, launched, isSettingAngle, ballPosition, trajectory, stats, isSlowMotion,
                 simulationTime, trajectoryData, lastCompletedRun, now>>

\* The Play button, there while paused: setStatus('flying'); the effect
\* takes the clock reading and requests a frame.
handlePlay ==
  /\ PlayOffered(status)
  /\ LET effect == StatusEffect("flying", Closure("flying", isSlowMotion, params),
                                frames, animationFrameId, lastFrameTime)
     IN  /\ status' = "flying"
         /\ frames' = effect.frames
         /\ animationFrameId' = effect.animationFrameId
         /\ lastFrameTime' = effect.lastFrameTime
  /\ event' = Event("play", TRUE)
  /\ UNCHANGED <<params, solver, storedRuns, launched, isSettingAngle, ballPosition, trajectory, stats, isSlowMotion,
                 simulationTime, trajectoryData, lastCompletedRun, now>>

\* onToggleSlowMotion: setSlowMotion(s => !s).  simulationLoop depends on
\* isSlowMotion, so the effect on [status, simulationLoop] runs again.
ToggleSlowMotion ==
  /\ isSlowMotion' = ~isSlowMotion
  /\ LET effect == StatusEffect(status, Closure(status, ~isSlowMotion, params),
                                frames, animationFrameId, lastFrameTime)
     IN  /\ frames' = effect.frames
         /\ animationFrameId' = effect.animationFrameId
         /\ lastFrameTime' = effect.lastFrameTime
  /\ event' = Event("slowMotion", TRUE)
  /\ UNCHANGED <<params, solver, storedRuns, launched, isSettingAngle, status, ballPosition, trajectory, stats,
                 simulationTime, trajectoryData, lastCompletedRun, now>>

\* The Clear Path button, enabled while flying or paused.
handleClearPath ==
  /\ status = "flying" \/ status = "paused"
  /\ trajectory' = <<ballPosition>>
  /\ event' = Event("clearPath", TRUE)
  /\ UNCHANGED <<params, solver, storedRuns, launched, isSettingAngle, status, ballPosition, stats, isSlowMotion,
                 animationFrameId, simulationTime, lastFrameTime, trajectoryData,
                 lastCompletedRun, now, frames>>

\* The first pair of consecutive samples with p1.t <= time < p2.t, 0 if none.
Bracket(trajPoints, time) ==
  LET found == {i \in 1..(Len(trajPoints) - 1) :
                  time >= trajPoints[i].t /\ time < trajPoints[i + 1].t}
  IN  IF found = {} THEN 0 ELSE CHOOSE i \in found : \A j \in found : i <= j

Interpolated_FromZero(p1, p2, time) ==
  LET t == FDiv[time, p2.t - p1.t]
  IN  [x |-> p1.x + FMul[p2.x - p1.x, t], y |-> p1.y + FMul[p2.y - p1.y, t]]

\* currentPoint between the samples p1 and p2 at the given time
Interpolated(p1, p2, time) ==
  LET t == FDiv[time - p1.t, p2.t - p1.t]
  IN  [x |-> p1.x + FMul[p2.x - p1.x, t], y |-> p1.y + FMul[p2.y - p1.y, t]]

\* currentPoint: the last sample once the flight time is reached, else the
\* interpolated point, Null when no pair of samples brackets the time.
CurrentPoint(data, time) ==
  IF time >= data.finalStats.flightTime
    THEN data.trajectory[Len(data.trajectory)]
    ELSE LET i == Bracket(data.trajectory, time)
         IN  IF i = 0 THEN Null
                      ELSE Interpolated(data.trajectory[i], data.trajectory[i + 1], time)

VisibleTrajectory_Before(data, time) ==
  LET visible == SelectSeq(data.trajectory, LAMBDA p : p.t < time)
      current == CurrentPoint(data, time)
  IN  IF Len(visible) > 0 /\ current # Null /\ visible[Len(visible)] # current
        THEN Append(visible, current)
        ELSE visible

\* visibleTrajectory: the samples up to the time, and currentPoint when it
\* differs from the last of them.
VisibleTrajectory(data, time) ==
  LET visible == SelectSeq(data.trajectory, LAMBDA p : p.t <= time)
      current == CurrentPoint(data, time)
  IN  IF Len(visible) > 0 /\ current # Null /\ visible[Len(visible)] # current
        THEN Append(visible, current)
        ELSE visible

\* The browser calls a requested frame: simulationLoop(now) as captured in
\* the frame, with the render and the effects after it.  A finished run sets
\* status 'finished', and the effect on [params.startHeight, status] then
\* puts the ball on the tee.
Tick(f) ==
  /\ f \in frames
  /\ event' = Event("tick", f.loop.status = "flying")
  /\ IF f.loop.status # "flying"
       THEN /\ frames' = frames \ {f}
            /\ UNCHANGED <<status, ballPosition, trajectory, stats,
                           animationFrameId, simulationTime, lastFrameTime,
                           lastCompletedRun>>
       ELSE LET time == simulationTime
                          + FMul[Seconds(now - lastFrameTime), TimeFactor(f.loop.isSlowMotion)]
                data == trajectoryData
                current == CurrentPoint(data, time)
                fresh == FreshFrameId(frames \ {f}, 0)
            IN  /\ lastFrameTime' = now
                /\ simulationTime' = time
                /\ trajectory' = VisibleTrajectory(data, time)
                /\ IF time >= data.finalStats.flightTime
                     THEN /\ stats' = data.finalStats
                          /\ status' = "finished"
                          /\ lastCompletedRun' = [params |-> f.loop.params,
                                                  stats |-> data.finalStats]
                          /\ ballPosition' = RestingBall("finished", params, current)
                          /\ animationFrameId' = 0
                          /\ frames' = frames \ {f}
                     ELSE /\ ballPosition' = IF current = Null THEN ballPosition ELSE current
                          /\ animationFrameId' = fresh
                          /\ frames' = (frames \ {f}) \cup {[id |-> fresh, loop |-> f.loop]}
                          /\ UNCHANGED <<status, stats, lastCompletedRun>>
  /\ UNCHANGED <<params, solver, storedRuns, launched, isSettingAngle, isSlowMotion, trajectoryData, now>>

\* handleParamChange with the render and effects after it.  The new params
\* make a new simulationLoop, so the effect on [status, simulationLoop] runs
\* again.
handleParamChange(newParams) ==
  /\ params' = newParams
  /\ LET effect == StatusEffect(status, Closure(status, isSlowMotion, newParams),
                                frames, animationFrameId, lastFrameTime)
     IN  /\ frames' = effect.frames
         /\ animationFrameId' = effect.animationFrameId
         /\ lastFrameTime' = effect.lastFrameTime
  /\ ballPosition' = IF newParams.startHeight # params.startHeight
                       THEN RestingBall(status, newParams, ballPosition)
                       ELSE ballPosition
  /\ UNCHANGED <<solver, storedRuns, launched, isSettingAngle, status, trajectory, stats, isSlowMotion,
                 simulationTime, trajectoryData, lastCompletedRun, now>>

\* The angle slider of AngleControl, disabled while flying or paused.
onAngleChange(angle) ==
  /\ ~(status = "flying" \/ status = "paused")
  /\ handleParamChange([params EXCEPT !.angle = angle])
  /\ event' = Event("angle", TRUE)

\* Mouse down on the club: handleAngleDragStart.
handleAngleDragStart ==
  /\ ~(status # "idle" /\ status # "finished")
  /\ ~isSettingAngle
  /\ isSettingAngle' = TRUE
  /\ event' = Event("dragStart", TRUE)
  /\ UNCHANGED <<params, solver, storedRuns, launched, status, ballPosition, trajectory, stats,
                 isSlowMotion, animationFrameId, simulationTime, lastFrameTime,
                 trajectoryData, lastCompletedRun, now, frames>>

\* Mouse move during a drag: handleMouseMove calls handleAngleDragMove,
\* which sets the angle under the pointer.
handleAngleDragMove(angle) ==
  /\ isSettingAngle
  /\ handleParamChange([params EXCEPT !.angle = angle])
  /\ event' = Event("dragMove", TRUE)

\* Mouse up or mouse leave during a drag: handleAngleDragEnd.
handleAngleDragEnd ==
  /\ isSettingAngle
  /\ isSettingAngle' = FALSE
  /\ event' = Event("dragEnd", TRUE)
  /\ UNCHANGED <<params, solver, storedRuns, launched, status, ballPosition, trajectory, stats,
                 isSlowMotion, animationFrameId, simulationTime, lastFrameTime,
                 trajectoryData, lastCompletedRun, now, frames>>

\* Time passes.
Advance(gap) ==
  /\ now + gap <= MaxNow
  /\ now' = now + gap
  /\ UNCHANGED <<params, solver, storedRuns, launched, isSettingAngle, status, ballPosition, trajectory, stats,
                 isSlowMotion, animationFrameId, simulationTime, lastFrameTime,
                 trajectoryData, lastCompletedRun, frames, event>>

PlaybackNext ==
  \/ Swing
  \/ resetSimulation
  \/ handlePause
  \/ handlePlay
  \/ ToggleSlowMotion
  \/ handleClearPath
  \/ \E f \in frames : Tick(f)
  \/ \E gap \in FrameGaps : Advance(gap)

PlaybackSpec == PlaybackInit /\ [][PlaybackNext]_vars

\* The component with a user who also edits the launch angle, with the
\* slider and by dragging the arrow, starting from one setting.
EditingInit == PlaybackInit /\ params = Lob

EditingNext ==
  \/ PlaybackNext
  \/ \E angle \in EditAngles : onAngleChange(angle)
  \/ handleAngleDragStart
  \/ \E angle \in EditAngles : handleAngleDragMove(angle)
  \/ handleAngleDragEnd

EditingSpec == EditingInit /\ [][EditingNext]_vars

\* The most runs stored while the component is followed.
MaxStored == 2

\* canStoreRun: the Store button is disabled unless finished.
StoreOffered(status_) == status_ = "finished"

\* The record handleStoreRun appends for a completed run.
StoredRecord(run, id) == [id |-> id, params |-> run.params, stats |-> run.stats]

\* The Store button: handleStoreRun.  With no completed run it shows a
\* toast only.
handleStoreRun ==
  /\ StoreOffered(status)
  /\ Len(storedRuns) < MaxStored
  /\ storedRuns' = IF lastCompletedRun # Null
                     THEN Append(storedRuns, StoredRecord(lastCompletedRun, now))
                     ELSE storedRuns
  /\ event' = Event("store", lastCompletedRun # Null)
  /\ UNCHANGED <<params, solver, launched, isSettingAngle, status, ballPosition,
                 trajectory, stats, isSlowMotion, animationFrameId, simulationTime,
                 lastFrameTime, trajectoryData, lastCompletedRun, now, frames>>

\* Launches, frames, resets, angle edits and drags, and the Store button.
StoringNext ==
  \/ Swing
  \/ resetSimulation
  \/ \E f \in frames : Tick(f)
  \/ \E gap \in FrameGaps : Advance(gap)
  \/ \E angle \in EditAngles : onAngleChange(angle)
  \/ handleAngleDragStart
  \/ \E angle \in EditAngles : handleAngleDragMove(angle)
  \/ handleAngleDragEnd
  \/ handleStoreRun

StoringSpec == EditingInit /\ [][StoringNext]_vars

\* ------------------------------------------------------------------------
\* Properties of the playback controller
\* ------------------------------------------------------------------------

\* The one frame requested for a run in the given slow-motion setting.
FirstFrame == {[id |-> 1, loop |-> Closure("flying", isSlowMotion, params)]}

\* C14: a launch from idle or finished leaves, in one step and before any
\* frame callback of the new run can be called, the complete result of
\* calculateTrajectory(params) in trajectoryData and its stats in stats; the
\* new run starts with elapsed time 0, an empty visible trajectory and
\* status flying, measured from the instant of the launch, whatever the
\* previous run left behind.
C14_LaunchStartsFreshRun ==
  [][(SwingOffered(status) /\ status' = "flying") =>
       /\ trajectoryData' = ResultOf(params, DefaultTimeStep, <<>>)
       /\ stats' = trajectoryData'.finalStats
       /\ simulationTime' = 0
       /\ trajectory' = <<>>
       /\ ballPosition' = [x |-> 0, y |-> params.startHeight]
       /\ lastFrameTime' = now
       /\ frames' = FirstFrame]_vars

\* a second launch, after a run in slow motion was played to the end
C14_Witness ==
  /\ status = "flying"
  /\ event.name = "swing" /\ event.accepted /\ event.at = now
  /\ lastCompletedRun # Null
  /\ simulationTime = 0
  /\ trajectory = <<>>
  /\ lastCompletedRun.stats.flightTime > 0
  /\ frames # {}
  /\ isSlowMotion

\* C15: from the pause on, while the status stays paused, the elapsed time
\* and the ball do not change and no frame callback runs: the pause leaves
\* no frame requested, so the callback that was requested when the user
\* paused is never called.
C15_PausedClockStands ==
  [][status' = "paused" =>
       /\ simulationTime' = simulationTime
       /\ ballPosition' = ballPosition
       /\ frames' = {}
       /\ event'.name # "tick"]_vars

\* paused in mid-flight, and a long frame gap has passed since the last
\* frame while the user switched to slow motion
C15_Witness ==
  /\ status = "paused"
  /\ simulationTime > 0
  /\ simulationTime < trajectoryData.finalStats.flightTime
  /\ now >= lastFrameTime + 300
  /\ event.name = "slowMotion"

\* C16: a resume restarts the measurement of wall time.  handlePlay leaves
\* the elapsed time as the pause left it, and the first frame callback after
\* it adds the wall time since the resume, times the time factor, and
\* nothing for the time spent paused, however long that was.
C16_ResumeAddsOnlyTimeSinceResume ==
  [][/\ (status = "paused" /\ status' = "flying" /\ event'.name = "play") =>
          simulationTime' = simulationTime
     /\ (event.name = "play" /\ event'.name = "tick") =>
          simulationTime' = simulationTime
             + FMul[Seconds(now - event.at), TimeFactor(isSlowMotion)]]_vars

\* resumed in mid-flight after a pause in which a long frame gap passed; a
\* frame's time has passed since, and the first frame is about to be called
C16_Witness ==
  /\ status = "flying"
  /\ event.name = "play"
  /\ event.gap >= 300
  /\ now = event.at + 100
  /\ simulationTime > 0
  /\ frames # {}

\* The last sample of the trajectory being played back.
FinalSample == trajectoryData.trajectory[Len(trajectoryData.trajectory)]

\* C17: in a finished state, reached by a frame callback that found the
\* elapsed time at or beyond the flight time and after the effects of the
\* status change have run, no frame is requested and the ball is at the
\* last sample of the played trajectory.
C17_FinishedBallOnFinalSample ==
  status = "finished" =>
    /\ frames = {}
    /\ ballPosition.x = FinalSample.x
    /\ ballPosition.y = FinalSample.y

\* What holds of a finished state: no frame is requested, the stats and the
\* visible trajectory are those of the played result, and the ball is on
\* the tee.
FinishedBallOnTee ==
  status = "finished" =>
    /\ frames = {}
    /\ animationFrameId = 0
    /\ stats = trajectoryData.finalStats
    /\ simulationTime >= trajectoryData.finalStats.flightTime
    /\ trajectory = trajectoryData.trajectory
    /\ ballPosition = [x |-> 0, y |-> params.startHeight]

\* C18: Reset, from whichever status, leaves status idle, no frame
\* requested, the visible trajectory empty, the elapsed time 0, the stats at
\* their initial values and the ball on the tee at (0, params.startHeight).
\* Only the clock moves between a reset and the next event.
C18_ResetRestoresRest ==
  event.name = "reset" =>
    /\ status = "idle"
    /\ frames = {}
    /\ animationFrameId = 0
    /\ trajectory = <<>>
    /\ simulationTime = 0
    /\ stats = initialStats
    /\ ballPosition = [x |-> 0, y |-> params.startHeight]

\* a reset in mid-flight from a raised tee, while a frame was requested
C18_Witness ==
  /\ event.name = "reset"
  /\ event.found = "flying"
  /\ event.gap > 0
  /\ params.startHeight > 0
  /\ trajectoryData # Null
  /\ lastCompletedRun = Null

\* The frame a playback in flight has requested: the id held in
\* animationFrameId, the simulationLoop of the current render.
CurrentFrame ==
  [id |-> animationFrameId, loop |-> Closure("flying", isSlowMotion, params)]

\* C19: no frame callback outlives the run that requested it.  At rest,
\* after a reset or at the end of a run, no callback is requested; in
\* flight the only requested callback is the one the current run requested
\* last, and the stats shown are those of the result it plays.  So every
\* callback that is called belongs to the run in flight, and what it writes
\* derives from that run.
C19_NoCallbackOutlivesItsRun ==
  /\ frames = IF status = "flying" THEN {CurrentFrame} ELSE {}
  /\ status # "flying" => animationFrameId = 0
  /\ status # "idle" => stats = trajectoryData.finalStats
  /\ event.name = "tick" => (event.accepted /\ event.found = "flying")

\* long after a reset in mid-flight: the callback that was requested when
\* the run was reset has not been called
C19_Witness ==
  /\ event.name = "reset"
  /\ event.found = "flying"
  /\ now >= event.at + 300
  /\ status = "idle"
  /\ trajectory = <<>>

PreviousTickAt ==
  IF event.name = "tick" \/ event.name = "play" \/ (event.name = "swing" /\ event.accepted)
    THEN event.at
    ELSE event.at - event.gap

\* C21: a slow-motion toggle leaves the elapsed time as it is, and every
\* frame callback adds the wall time since the previous frame callback (or
\* the launch or resume, if that came later) times the factor of the
\* setting it runs in, so that the elapsed time is the sum of these.
C21_ElapsedIsSumOfScaledDeltas ==
  [][/\ (event'.name = "slowMotion" /\ now' = now) => simulationTime' = simulationTime
     /\ (event'.name = "tick" /\ now' = now) =>
          simulationTime' = simulationTime
             + FMul[Seconds(now - PreviousTickAt), TimeFactor(isSlowMotion)]]_vars

\* What holds of the toggle: it leaves the elapsed time as it is, and a
\* frame callback adds the wall time since lastFrameTime, which the toggle
\* moves to its own instant while flying, times the factor of the setting.
ToggleRestartsMeasurement ==
  [][/\ (event'.name = "slowMotion" /\ now' = now) =>
          /\ simulationTime' = simulationTime
          /\ lastFrameTime' = IF status = "flying" THEN now ELSE lastFrameTime
     /\ (event'.name = "tick" /\ now' = now) =>
          simulationTime' = simulationTime
             + FMul[Seconds(now - lastFrameTime), TimeFactor(isSlowMotion)]]_vars

\* C22: while the status is flying or paused the physics parameters do not
\* change, whichever way the user tries to edit them, a drag of the launch
\* arrow begun before the launch included.
C22_NoEditInFlight ==
  [][(status = "flying" \/ status = "paused") => params' = params]_vars

\* What holds of edits in flight: no drag begins while flying or paused, and
\* the parameters change only by handleAngleDragMove in a drag that was
\* begun at rest.
OnlyRunningDragEditsInFlight ==
  [][(status = "flying" \/ status = "paused") =>
       /\ isSettingAngle' => isSettingAngle
       /\ params' # params => (isSettingAngle /\ event'.name = "dragMove")]_vars

\* The ball as a frame callback leaves it in flight at the given elapsed
\* time: currentPoint when there is one.
BallAt(time) ==
  IF CurrentPoint(trajectoryData, time) = Null
    THEN ballPosition
    ELSE CurrentPoint(trajectoryData, time)

\* C23: playback is a function of the played trajectory, the transport
\* commands and the wall-clock deltas of the frames.  After every frame
\* callback the visible trajectory and the ball in flight are those of the
\* elapsed time so far plus the frame's delta, measured from the previous
\* frame callback, launch or resume, times the factor; no other clock reading
\* enters.
C23_PlaybackFollowsFromDeltas ==
  [][(event'.name = "tick" /\ now' = now) =>
       LET time == simulationTime
                     + FMul[Seconds(now - PreviousTickAt), TimeFactor(isSlowMotion)]
       IN  /\ trajectory' = VisibleTrajectory(trajectoryData, time)
           /\ status' = "flying" => ballPosition' = BallAt(time)]_vars

\* What holds of a frame callback: the visible trajectory and the ball in
\* flight are those of the elapsed time plus the wall time since
\* lastFrameTime times the factor.  lastFrameTime is the clock reading of
\* the last frame callback, launch, resume, slow-motion toggle or edit.
PlaybackFollowsFromLastFrameTime ==
  [][(event'.name = "tick" /\ now' = now) =>
       LET time == simulationTime
                     + FMul[Seconds(now - lastFrameTime), TimeFactor(isSlowMotion)]
       IN  /\ simulationTime' = time
           /\ trajectory' = VisibleTrajectory(trajectoryData, time)
           /\ status' = "flying" => ballPosition' = BallAt(time)]_vars

\* C24: finished is left only by a launch, to flying, or by a reset, to
\* idle.  No pause, resume, slow-motion toggle, frame callback or edit
\* changes the status of a finished playback.
C24_FinishedUntilLaunchOrReset ==
  [][status = "finished" =>
       \/ status' = "finished"
       \/ status' = "flying" /\ event'.name = "swing" /\ event'.accepted
       \/ status' = "idle" /\ event'.name = "reset"]_vars

\* a slow-motion toggle came on a finished playback, which is finished still
C24_Witness ==
  /\ status = "finished"
  /\ event.name = "slowMotion"
  /\ event.found = "finished"

\* C25: the stored runs change only by the Store button on a finished
\* playback, and each Store appends one record, leaving the earlier ones,
\* whose params are those the landed shot was launched with and whose stats
\* are the final stats of that shot, whatever was edited since.
C25_StoreKeepsLandedShot ==
  [][/\ storedRuns' # storedRuns => (status = "finished" /\ event'.name = "store")
     /\ (event'.name = "store" /\ storedRuns' # storedRuns) =>
          /\ Len(storedRuns') = Len(storedRuns) + 1
          /\ SubSeq(storedRuns', 1, Len(storedRuns)) = storedRuns
          /\ storedRuns'[Len(storedRuns')].params = launched
          /\ storedRuns'[Len(storedRuns')].stats = trajectoryData.finalStats]_vars

\* What holds of Store: one record is appended on a finished playback, with
\* the final stats of the landed shot and the params in force at the frame
\* that finished it.
StoreKeepsParamsAtLanding ==
  [][/\ storedRuns' # storedRuns => (status = "finished" /\ event'.name = "store")
     /\ (event'.name = "store" /\ storedRuns' # storedRuns) =>
          /\ Len(storedRuns') = Len(storedRuns) + 1
          /\ SubSeq(storedRuns', 1, Len(storedRuns)) = storedRuns
          /\ storedRuns'[Len(storedRuns')].params = lastCompletedRun.params
          /\ storedRuns'[Len(storedRuns')].stats = trajectoryData.finalStats
     /\ (event'.name = "tick" /\ status' = "finished" /\ status = "flying") =>
          lastCompletedRun'.params = params]_vars

\* a second run is stored after the angle was edited on the landed ball
StoredAfterEdit ==
  /\ Len(storedRuns) = 2
  /\ event.name = "store"
  /\ params # launched
  /\ storedRuns[2].params = launched

\* a lies between b and c, ends included
Between(a, b, c) == (b <= a /\ a <= c) \/ (c <= a /\ a <= b)

\* The point q lies on the segment from the sample p1 to the sample p2:
\* within the box of its ends, and on the line through them up to the
\* rounding of the two products of the interpolation.
OnSegment(q, p1, p2) ==
  /\ Between(q.x, p1.x, p2.x)
  /\ Between(q.y, p1.y, p2.y)
  /\ Abs(FMul[q.x - p1.x, p2.y - p1.y] - FMul[q.y - p1.y, p2.x - p1.x]) <= RoundingSlack

\* C26: while a playback is in flight with its elapsed time short of the
\* flight time, two consecutive samples p1, p2 with p1.t <= elapsed < p2.t
\* exist, and the ball is drawn at a point of the segment from p1 to p2.
C26_BallOnBracketingSegment ==
  (/\ status = "flying" \/ status = "paused"
   /\ simulationTime < trajectoryData.finalStats.flightTime) =>
    \E i \in 1..(Len(trajectoryData.trajectory) - 1) :
      /\ trajectoryData.trajectory[i].t <= simulationTime
      /\ simulationTime < trajectoryData.trajectory[i + 1].t
      /\ OnSegment(ballPosition, trajectoryData.trajectory[i],
                   trajectoryData.trajectory[i + 1])

\* a frame callback left the ball in flight strictly inside a segment, off
\* both of its ends
C26_Witness ==
  /\ status = "flying"
  /\ event.name = "tick"
  /\ simulationTime < trajectoryData.finalStats.flightTime
  /\ \E i \in 1..(Len(trajectoryData.trajectory) - 1) :
       /\ trajectoryData.trajectory[i].t < simulationTime
       /\ simulationTime < trajectoryData.trajectory[i + 1].t
       /\ ballPosition.x # trajectoryData.trajectory[i].x
       /\ ballPosition.x # trajectoryData.trajectory[i + 1].x

\* The samples of the played trajectory up to the given time.
SamplesUpTo(time) == SelectSeq(trajectoryData.trajectory, LAMBDA p : p.t <= time)

C28_AnalyticalSamplesAtTimeStep ==
  (pc = "done" /\ method = "analytical") =>
    /\ \A i \in 1..(Len(result.trajectory) - 2) :
         result.trajectory[i + 1].t - result.trajectory[i].t = timeStep
    /\ result.trajectory[Len(result.trajectory)].t = result.finalStats.flightTime
    /\ result.trajectory[Len(result.trajectory)].y = 0

\* What holds of the analytical method: the samples before the last start
\* at t = 0 and are 0.016 apart whatever timeStep the call was made with, and
\* the last sample is at t = flightTime, y = 0.
AnalyticalSamplesAtFixedDt ==
  (pc = "done" /\ method = "analytical") =>
    /\ result.trajectory[1].t = 0
    /\ \A i \in 1..(Len(result.trajectory) - 2) :
         result.trajectory[i + 1].t - result.trajectory[i].t = AnalyticalDt
    /\ result.trajectory[Len(result.trajectory)].t = result.finalStats.flightTime
    /\ result.trajectory[Len(result.trajectory)].y = 0

\* an analytical call made with the time step of the aiming preview has
\* returned three samples or more
AnalyticalAimingDone ==
  /\ pc = "done"
  /\ method = "analytical"
  /\ timeStep = AimingTimeStep
  /\ Len(result.trajectory) >= 3

\* C30: never are two frame callbacks requested at once, and one is
\* requested only while flying: none is left after a pause, a finish or a
\* reset, and the effect run again in flight replaces the requested frame.
C30_AtMostOneFramePending ==
  /\ Cardinality(frames) <= 1
  /\ frames # {} => status = "flying"

\* slow motion was switched in flight, the effect has run again, and one
\* frame is requested
C30_Witness ==
  /\ status = "flying"
  /\ event.name = "slowMotion"
  /\ event.found = "flying"
  /\ Cardinality(frames) = 1

\* ------------------------------------------------------------------------
\* Playback with time that never runs out
\* ------------------------------------------------------------------------

\* Time passes, and the time origin of performance.now() is moved to the
\* reading kept in lastFrameTime.  The component uses clock readings only in
\* the difference now - lastFrameTime, so the move changes nothing it does,
\* and the clock can run for ever within a bounded range of readings.
AdvanceFromLastFrame(gap) ==
  /\ (now - lastFrameTime) + gap <= MaxNow
  /\ now' = (now - lastFrameTime) + gap
  /\ lastFrameTime' = 0
  /\ event' = [event EXCEPT !.at = @ - lastFrameTime]
  /\ UNCHANGED <<params, solver, storedRuns, launched, isSettingAngle, status,
                 ballPosition, trajectory, stats, isSlowMotion, animationFrameId,
                 simulationTime, trajectoryData, lastCompletedRun, frames>>

\* The browser calls the requested frame after time has passed since the
\* reading in lastFrameTime.
LaterTick == \E f \in frames : now > lastFrameTime /\ Tick(f)

RunningInit == PlaybackInit /\ params \in {Chip, Lob}

RunningNext ==
  \/ Swing
  \/ resetSimulation
  \/ handlePause
  \/ handlePlay
  \/ ToggleSlowMotion
  \/ \E f \in frames : Tick(f)
  \/ \E gap \in FrameGaps : AdvanceFromLastFrame(gap)

\* Time passes.  That the browser calls the requested frames is a premise
\* of the property stated for this specification.
RunningSpec ==
  /\ RunningInit
  /\ [][RunningNext]_vars
  /\ WF_vars(\E gap \in FrameGaps : AdvanceFromLastFrame(gap))

\* C29: a playback in flight comes to finished, or is reset to idle, in
\* every behaviour in which it is not paused for ever, slow motion is
\* switched finitely often, and frames keep being called with time passed
\* since the last one for as long as playbacks are in flight.
C29_EveryPlaybackFinishes ==
  (/\ []<>(status # "paused")
   /\ <>[][isSlowMotion' = isSlowMotion]_vars
   /\ <>[](status # "flying") \/ []<><<LaterTick>>_vars)
    => [](status = "flying" => <>(status = "finished" \/ status = "idle"))

\* a playback that was paused, resumed and slowed down on its way has
\* finished
C29_Witness ==
  /\ status = "finished"
  /\ isSlowMotion
  /\ event.name = "tick"
  /\ event.gap > 0
  /\ simulationTime > trajectoryData.finalStats.flightTime

====
